---- MODULE Spec2Model ----
(***************************************************************************)
(* Model of the ingestion pipeline of rag_public_reports/ingest.py:        *)
(* heading detection, section segmentation, the fixed-window splitter,     *)
(* metadata enrichment and the minimum-length filter.                      *)
(*                                                                         *)
(* Text.  A Python str is modelled as a run-length encoded sequence of     *)
(* runs <<c, n>> (character c repeated n >= 1 times), kept canonical: two  *)
(* adjacent runs never carry the same character.  This keeps the program's *)
(* real sizes (2000, 4000, 150, 120) within reach of the model checker.    *)
(* A character is a one-token string.  Characters outside ASCII are        *)
(* written as named tokens: "E_acute", "E_grave", "E_circ", "E_uml" (same  *)
(* for the other vowels, upper and lower case), "c_ced" is c cedilla and   *)
(* "endash" is the en dash.                                                *)
(***************************************************************************)
EXTENDS Integers, Sequences, FiniteSets, TLC

\* ------------------------------------------------------------------------
\* Bounds of the model
\* ------------------------------------------------------------------------
MaxLines == 2
\* rows of a catalogue, and runs of ingest_folder.py in a row
MaxRows == 2
MaxRuns == 2

\* ------------------------------------------------------------------------
\* Program constants
\* ------------------------------------------------------------------------
CHUNK_SIZE == 2000
CHUNK_OVERLAP == 400
MIN_CHUNK_LENGTH == 150
TITLE_MAX == 120

\* ------------------------------------------------------------------------
\* Python str primitives on run-length encoded text
\* ------------------------------------------------------------------------
NL == "\n"
SP == " "
Whitespace == {SP, NL, "\t"}
Inf == 1000000

Min2(a, b) == IF a <= b THEN a ELSE b

\* the element of a one-element set: Only({ e : x \in {v} }) is e with x
\* bound to the value of v, computed once
Only(S) == CHOOSE x \in S : TRUE

\* The operators below recurse on halves of the sequence of runs, or look a
\* run up by its index, so that their depth stays logarithmic in the number
\* of runs.
FirstHalf(t) == SubSeq(t, 1, Len(t) \div 2)
SecondHalf(t) == SubSeq(t, Len(t) \div 2 + 1, Len(t))

\* len(t)
RECURSIVE TLen(_)
TLen(t) ==
    IF t = <<>> THEN 0
    ELSE IF Len(t) = 1 THEN t[1][2]
    ELSE TLen(FirstHalf(t)) + TLen(SecondHalf(t))

\* a + b
Cat(a, b) ==
    IF a = <<>> THEN b
    ELSE IF b = <<>> THEN a
    ELSE IF a[Len(a)][1] = b[1][1]
         THEN SubSeq(a, 1, Len(a) - 1)
                \o << <<b[1][1], a[Len(a)][2] + b[1][2]>> >>
                \o Tail(b)
         ELSE a \o b

\* t[k:]
RECURSIVE Drop(_, _)
Drop(t, k) ==
    IF k <= 0 \/ t = <<>> THEN t
    ELSE IF Len(t) = 1
         THEN (IF t[1][2] <= k THEN <<>> ELSE << <<t[1][1], t[1][2] - k>> >>)
    ELSE LET n == TLen(FirstHalf(t))
         IN  IF k >= n THEN Drop(SecondHalf(t), k - n)
             ELSE Drop(FirstHalf(t), k) \o SecondHalf(t)

\* t[:k]
RECURSIVE Take(_, _)
Take(t, k) ==
    IF k <= 0 \/ t = <<>> THEN <<>>
    ELSE IF Len(t) = 1
         THEN (IF t[1][2] <= k THEN t ELSE << <<t[1][1], k>> >>)
    ELSE LET n == TLen(FirstHalf(t))
         IN  IF k <= n THEN Take(FirstHalf(t), k)
             ELSE FirstHalf(t) \o Take(SecondHalf(t), k - n)

\* the lowest (highest) of a set of run indices, 0 when the set is empty
FirstRun(S) == IF S = {} THEN 0 ELSE CHOOSE i \in S : \A j \in S : i <= j
LastRun(S) == IF S = {} THEN 0 ELSE CHOOSE i \in S : \A j \in S : i >= j

IsInk(run) == run[1] \notin Whitespace

LStrip(t) ==
    LET i == FirstRun({ k \in DOMAIN t : IsInk(t[k]) })
    IN  IF i = 0 THEN <<>> ELSE SubSeq(t, i, Len(t))
RStrip(t) == SubSeq(t, 1, LastRun({ k \in DOMAIN t : IsInk(t[k]) }))

\* t.strip()
Strip(t) == RStrip(LStrip(t))

\* a literal, written character by character
RECURSIVE Str(_)
Str(cs) ==
    IF cs = <<>> THEN <<>>
    ELSE IF Len(cs) = 1 THEN << <<cs[1], 1>> >>
    ELSE Cat(Str(FirstHalf(cs)), Str(SecondHalf(cs)))

\* c * n
Rep(c, n) == IF n <= 0 THEN <<>> ELSE << <<c, n>> >>

\* the characters of t, one by one
RECURSIVE Expand(_)
Expand(t) ==
    IF t = <<>> THEN <<>>
    ELSE IF Len(t) = 1 THEN [i \in 1 .. t[1][2] |-> t[1][1]]
    ELSE Expand(FirstHalf(t)) \o Expand(SecondHalf(t))

\* t.startswith(p)
StartsWith(t, p) == TLen(t) >= TLen(p) /\ Take(t, TLen(p)) = p

\* re.sub(r"\s+", " ", line): every maximal stretch of whitespace becomes
\* one space
CollapseWs(t) ==
    LET marked == [i \in DOMAIN t |->
                     IF t[i][1] \notin Whitespace THEN t[i]
                     ELSE IF i > 1 /\ t[i - 1][1] \in Whitespace THEN <<SP, 0>>
                     ELSE <<SP, 1>>]
    IN  SelectSeq(marked, LAMBDA run : run[2] > 0)

\* the number of characters before run i
RunStart(t, i) == TLen(SubSeq(t, 1, i - 1))

\* the index of the run in which the leftmost occurrence of sep begins, 0
\* when sep does not occur.  The separators are a repeated character, or a
\* full stop followed by a space.
MatchRun(t, sep) ==
    LET S == { i \in DOMAIN t :
                 IF Len(sep) = 1
                 THEN t[i][1] = sep[1][1] /\ t[i][2] >= sep[1][2]
                 ELSE /\ t[i][1] = sep[1][1]
                      /\ i < Len(t)
                      /\ t[i + 1][1] = sep[2][1] }
    IN  IF S = {} THEN 0 ELSE CHOOSE i \in S : \A j \in S : i <= j

\* the number of characters before the leftmost occurrence of sep in t
MatchStart(t, sep) ==
    LET i == MatchRun(t, sep)
    IN  IF Len(sep) = 1 THEN RunStart(t, i)
        ELSE RunStart(t, i) + t[i][2] - sep[1][2]

Occurs(sep, t) == MatchRun(t, sep) # 0

\* str.split(sep): the pieces between the leftmost non-overlapping
\* occurrences of sep (re.split and str.split agree on a literal sep)
RECURSIVE SplitOn(_, _)
SplitOn(t, sep) ==
    IF ~Occurs(sep, t) THEN <<t>>
    ELSE LET at == MatchStart(t, sep)
         IN  <<Take(t, at)>> \o SplitOn(Drop(t, at + TLen(sep)), sep)

\* sep.join(parts)
RECURSIVE Join(_, _)
Join(parts, sep) ==
    IF parts = <<>> THEN <<>>
    ELSE IF Len(parts) = 1 THEN parts[1]
    ELSE Cat(Cat(Join(FirstHalf(parts), sep), sep), Join(SecondHalf(parts), sep))

\* ------------------------------------------------------------------------
\* Characters and the regular expressions of the heading patterns
\* ------------------------------------------------------------------------
UPPER == <<"A","B","C","D","E","F","G","H","I","J","K","L","M",
           "N","O","P","Q","R","S","T","U","V","W","X","Y","Z">>
LOWER == <<"a","b","c","d","e","f","g","h","i","j","k","l","m",
           "n","o","p","q","r","s","t","u","v","w","x","y","z">>
\* accented letters: upper case, its lower case, and the base letter left
\* once the combining mark is removed
ACC_UPPER == <<"A_grave","A_circ","E_acute","E_grave","E_circ","E_uml","I_circ","I_uml","O_circ","U_grave","U_circ","U_uml","C_ced">>
ACC_LOWER == <<"a_grave","a_circ","e_acute","e_grave","e_circ","e_uml","i_circ","i_uml","o_circ","u_grave","u_circ","u_uml","c_ced">>
ACC_BASE  == <<"a","a","e","e","e","e","i","i","o","u","u","u","c">>

Range(f) == {f[i] : i \in DOMAIN f}
AZ == Range(UPPER)
az == Range(LOWER)
\* [A-Z+acc] and [a-z+acc]: the letters and the twelve accented vowels the
\* patterns list (the cedilla is in neither)
UpperAcc == AZ \cup (Range(ACC_UPPER) \ {"C_ced"})
LowerAcc == az \cup (Range(ACC_LOWER) \ {"c_ced"})
Digit == {"0","1","2","3","4","5","6","7","8","9"}
Dash == {"-", "endash"}
IVX == {"I","V","X"}
IVXLC == {"I","V","X","L","C"}

\* One item of a pattern: a character class repeated lo..hi times, the dot
\* repeated lo..hi times, an alternative of literal words, a starred group
\* of items, or the end-of-line anchor $.
Cls(S, lo, hi) == [k |-> "cls", set |-> S, lo |-> lo, hi |-> hi]
Dot(lo, hi)    == [k |-> "dot", lo |-> lo, hi |-> hi]
Alt(W)         == [k |-> "alt", words |-> W]
Star(items)    == [k |-> "star", sub |-> items]
End            == [k |-> "end"]
Ws1 == Cls(Whitespace, 1, Inf)
Ws0 == Cls(Whitespace, 0, Inf)

\* number of leading characters of t that the item can consume
ClassRun(t, it) ==
    LET Outside(run) == IF it.k = "cls" THEN run[1] \notin it.set ELSE run[1] = NL
        i == FirstRun({ k \in DOMAIN t : Outside(t[k]) })
    IN  IF i = 0 THEN TLen(t) ELSE RunStart(t, i)

\* pattern.match(line): the pattern matches a prefix of the line
RECURSIVE Match(_, _)
Match(items, t) ==
    IF items = <<>> THEN TRUE
    ELSE LET it == Head(items)
             rest == Tail(items)
         IN  CASE it.k = "end" -> (t = <<>> \/ t[1][1] = NL) /\ Match(rest, t)
               [] it.k = "alt" ->
                    \E w \in it.words : StartsWith(t, w) /\ Match(rest, Drop(t, TLen(w)))
               [] it.k = "star" ->
                    Match(rest, t) \/ Match(it.sub \o items, t)
               [] OTHER ->
                    LET r == ClassRun(t, it)
                    IN  r >= it.lo
                        /\ \E n \in it.lo .. Min2(it.hi, r) : Match(rest, Drop(t, n))

ChapterWords == { Str(<<"C","H","A","P","I","T","R","E">>),
                  Str(<<"P","A","R","T","I","E">>),
                  Str(<<"T","I","T","R","E">>),
                  Str(<<"S","E","C","T","I","O","N">>) }

\* r"^[A-Z+acc][A-Z+acc\s\-(en dash):]{3,79}$"
AllCapsPattern ==
    << Cls(UpperAcc, 1, 1),
       Cls(UpperAcc \cup Whitespace \cup Dash \cup {":"}, 3, 79),
       End >>

_PATTERNS_COUR_DES_COMPTES == <<
    \* r"^(CHAPITRE|PARTIE|TITRE|SECTION)\s+[IVXLC]+\s+.{3,}"
    << Alt(ChapterWords), Ws1, Cls(IVXLC, 1, Inf), Ws1, Dot(3, Inf) >>,
    \* r"^[IVX]{1,4}\s*[\-(en dash)]\s+[A-Z+acc]{2,}.{5,}"
    << Cls(IVX, 1, 4), Ws0, Cls(Dash, 1, 1), Ws1, Cls(UpperAcc, 2, Inf), Dot(5, Inf) >>,
    \* r"^[A-Z]\s*[\-(en dash)]\s+[A-Z+acc][a-z+acc].{5,}"
    << Cls(AZ, 1, 1), Ws0, Cls(Dash, 1, 1), Ws1, Cls(UpperAcc, 1, 1),
       Cls(LowerAcc, 1, 1), Dot(5, Inf) >>,
    AllCapsPattern >>

_PATTERNS_IGF == <<
    \* r"^\d+\.\s{2,}[A-Z+acc]{2}.{5,}"
    << Cls(Digit, 1, Inf), Cls({"."}, 1, 1), Cls(Whitespace, 2, Inf),
       Cls(UpperAcc, 2, 2), Dot(5, Inf) >>,
    \* r"^\d+\.\d+\.\s+[A-Z+acc][a-z+acc].{5,}"
    << Cls(Digit, 1, Inf), Cls({"."}, 1, 1), Cls(Digit, 1, Inf), Cls({"."}, 1, 1),
       Ws1, Cls(UpperAcc, 1, 1), Cls(LowerAcc, 1, 1), Dot(5, Inf) >>,
    \* r"^\d+\.\d+\.\d+\.\s+[A-Z+acc][a-z+acc].{5,}"
    << Cls(Digit, 1, Inf), Cls({"."}, 1, 1), Cls(Digit, 1, Inf), Cls({"."}, 1, 1),
       Cls(Digit, 1, Inf), Cls({"."}, 1, 1),
       Ws1, Cls(UpperAcc, 1, 1), Cls(LowerAcc, 1, 1), Dot(5, Inf) >>,
    AllCapsPattern >>

_PATTERNS_GENERIQUES == <<
    \* r"^(CHAPITRE|PARTIE|TITRE|SECTION)\s+[0-9IVXLC]+[\s\-(en dash):]+.{3,}"
    << Alt(ChapterWords), Ws1, Cls(Digit \cup IVXLC, 1, Inf),
       Cls(Whitespace \cup Dash \cup {":"}, 1, Inf), Dot(3, Inf) >>,
    \* r"^[IVX]{1,4}[\.\s]*[\-(en dash)\.]\s+[A-Z+acc].{3,}"
    << Cls(IVX, 1, 4), Cls({"."} \cup Whitespace, 0, Inf), Cls(Dash \cup {"."}, 1, 1),
       Ws1, Cls(UpperAcc, 1, 1), Dot(3, Inf) >>,
    \* r"^[A-Z][\.\s]*[\-(en dash)\.]\s+[A-Z+acc].{3,}"
    << Cls(AZ, 1, 1), Cls({"."} \cup Whitespace, 0, Inf), Cls(Dash \cup {"."}, 1, 1),
       Ws1, Cls(UpperAcc, 1, 1), Dot(3, Inf) >>,
    \* r"^\d+(\.\d+)*\.?\s+[A-Z+acc].{3,}"
    << Cls(Digit, 1, Inf), Star(<< Cls({"."}, 1, 1), Cls(Digit, 1, Inf) >>),
       Cls({"."}, 0, 1), Ws1, Cls(UpperAcc, 1, 1), Dot(3, Inf) >>,
    AllCapsPattern >>

IndexIn(f, c) == CHOOSE i \in DOMAIN f : f[i] = c

\* s.lower(), one character
LowerChar(c) ==
    IF c \in Range(UPPER) THEN LOWER[IndexIn(UPPER, c)]
    ELSE IF c \in Range(ACC_UPPER) THEN ACC_LOWER[IndexIn(ACC_UPPER, c)]
    ELSE c

\* variant of Lower: the text as it is
LowerNot(t) == t

\* s.lower()
Lower(t) == Str([i \in 1 .. TLen(t) |-> LowerChar(Expand(t)[i])])

\* key = institution.strip().lower()
InstitutionKey(institution) == Lower(Strip(institution))

_PATTERNS_BY_INSTITUTION ==
    LET cour == Str(<<"c","o","u","r"," ","d","e","s"," ","c","o","m","p","t","e","s">>)
        igf  == Str(<<"i","g","f">>)
        cge  == Str(<<"c","g","e">>)
        igas == Str(<<"i","g","a","s">>)
        iga  == Str(<<"i","g","a">>)
    IN  [ key \in {cour, igf, cge, igas, iga} |->
            CASE key = cour -> _PATTERNS_COUR_DES_COMPTES
              [] key = igf  -> _PATTERNS_IGF
              [] key = cge  -> _PATTERNS_GENERIQUES
              [] key = igas -> _PATTERNS_GENERIQUES
              [] key = iga  -> _PATTERNS_GENERIQUES ]

\* _PATTERNS_BY_INSTITUTION.get(key, _PATTERNS_GENERIQUES)
_get_patterns(institution) ==
    LET key == InstitutionKey(institution)
    IN  IF key \in DOMAIN _PATTERNS_BY_INSTITUTION
        THEN _PATTERNS_BY_INSTITUTION[key]
        ELSE _PATTERNS_GENERIQUES

\* An optional str: None, or a text
None == [some |-> FALSE, v |-> <<>>]
Some(t) == [some |-> TRUE, v |-> t]

\* variant of _detect_section_title: the line is returned whole
_detect_section_title_whole(text, compiled_patterns) ==
    LET parts == SplitOn(text, Rep(NL, 1))
        stripped == [i \in DOMAIN parts |-> Strip(parts[i])]
        hits == { i \in DOMAIN parts :
                    /\ stripped[i] # <<>>
                    /\ \E p \in DOMAIN compiled_patterns :
                          Match(compiled_patterns[p], stripped[i]) }
    IN  IF hits = {} THEN None
        ELSE LET first == CHOOSE i \in hits : \A j \in hits : i <= j
             IN  Some(stripped[first])

\* _detect_section_title(text, compiled_patterns): text is one line here,
\* so its stripped non-empty lines are the stripped line itself, if any
_detect_section_title(text, compiled_patterns) ==
    LET parts == SplitOn(text, Rep(NL, 1))
        stripped == [i \in DOMAIN parts |-> Strip(parts[i])]
        hits == { i \in DOMAIN parts :
                    /\ stripped[i] # <<>>
                    /\ \E p \in DOMAIN compiled_patterns :
                          Match(compiled_patterns[p], stripped[i]) }
    IN  IF hits = {} THEN None
        ELSE LET first == CHOOSE i \in hits : \A j \in hits : i <= j
             IN  Some(Take(stripped[first], TITLE_MAX))

\* ------------------------------------------------------------------------
\* Protected sections
\* ------------------------------------------------------------------------
PROTECTED_SECTIONS == <<
    <<"r","e","c","o","m","m","a","n","d","a","t","i","o","n">>,
    <<"c","o","n","c","l","u","s","i","o","n">>,
    <<"s","y","n","t","h","e","s","e">>,
    <<"r","e","c","a","p","i","t","u","l","a","t","i","f">> >>

\* variant of StripAccentChar: the accents stay
KeepAccentChar(c) == c

\* NFD decomposition followed by the removal of the combining marks
StripAccentChar(c) ==
    IF c \in Range(ACC_LOWER) THEN ACC_BASE[IndexIn(ACC_LOWER, c)]
    ELSE IF c \in Range(ACC_UPPER) THEN UPPER[IndexIn(LOWER, ACC_BASE[IndexIn(ACC_UPPER, c)])]
    ELSE c

normalize(cs) == [i \in DOMAIN cs |-> StripAccentChar(LowerChar(cs[i]))]

Contains(cs, kw) ==
    \E i \in 1 .. (Len(cs) - Len(kw) + 1) : SubSeq(cs, i, i + Len(kw) - 1) = kw

\* _is_protected_section(title); title is a text, "" when there is none
_is_protected_section(title) ==
    IF title = <<>> THEN FALSE
    ELSE LET title_normalized == normalize(Expand(title))
         IN  \E k \in DOMAIN PROTECTED_SECTIONS :
                Contains(title_normalized, PROTECTED_SECTIONS[k])

\* ------------------------------------------------------------------------
\* RecursiveCharacterTextSplitter(chunk_size=CHUNK_SIZE,
\*     chunk_overlap=CHUNK_OVERLAP, add_start_index=True,
\*     separators=["\n\n\n", "\n\n", "\n", ". ", " "])
\* with the library's defaults keep_separator=True, strip_whitespace=True,
\* length_function=len, is_separator_regex=False.
\* ------------------------------------------------------------------------
separators == << Rep(NL, 3), Rep(NL, 2), Rep(NL, 1),
                 Str(<<".", SP>>), Rep(SP, 1) >>

NonEmpty(parts) == SelectSeq(parts, LAMBDA s : s # <<>>)

\* _split_text_with_regex(text, separator, keep_separator=True): each
\* separator stays at the head of the piece that follows it; empty pieces
\* are dropped
_split_text_with_regex(text, separator) ==
    LET pieces == SplitOn(text, separator)
    IN  NonEmpty([i \in DOMAIN pieces |->
                    IF i = 1 THEN pieces[1] ELSE Cat(separator, pieces[i])])

\* _join_docs(docs, separator="") with strip_whitespace; <<>> stands for None
_join_docs(docs) == Strip(Join(docs, <<>>))

SumLen(docs) == TLen(Join(docs, <<>>))

\* the inner while loop of _merge_splits: pop from the front of current_doc
\* while it is longer than the overlap, or still too long for the next split
RECURSIVE PopFront(_, _, _)
PopFront(current_doc, total, len) ==
    IF total > CHUNK_OVERLAP \/ (total + len > CHUNK_SIZE /\ total > 0)
    THEN PopFront(Tail(current_doc), total - TLen(current_doc[1]), len)
    ELSE current_doc

\* _merge_splits(splits, separator=""): the docs appended while the splits
\* are consumed, current_doc being the window under construction
RECURSIVE MergeLoop(_, _)
MergeLoop(splits, current_doc) ==
    LET doc == _join_docs(current_doc)
    IN  IF splits = <<>>
        THEN (IF doc # <<>> THEN <<doc>> ELSE <<>>)
        ELSE LET d == Head(splits)
                 len == TLen(d)
                 total == SumLen(current_doc)
                 full == total + len > CHUNK_SIZE /\ Len(current_doc) > 0
                 cur1 == IF full THEN PopFront(current_doc, total, len) ELSE current_doc
             IN  (IF full /\ doc # <<>> THEN <<doc>> ELSE <<>>)
                   \o MergeLoop(Tail(splits), Append(cur1, d))

_merge_splits(splits) == MergeLoop(splits, <<>>)

FirstSeparator(text, seps) ==
    LET found == { i \in DOMAIN seps : Occurs(seps[i], text) }
    IN  IF found = {} THEN 0 ELSE CHOOSE i \in found : \A j \in found : i <= j

\* the index of the first split of chunk_size characters or more, 0 when
\* every split is shorter
FirstLong(splits) ==
    LET long == { i \in DOMAIN splits : ~(TLen(splits[i]) < CHUNK_SIZE) }
    IN  IF long = {} THEN 0 ELSE CHOOSE i \in long : \A j \in long : i <= j

\* _split_text(text, separators): split on the first separator that occurs
\* in the text (the last one when none does), merge the pieces shorter than
\* chunk_size, and split a longer piece again with the separators that
\* remain; when none remains the piece is appended as it is.
\* SplitLoop is the loop over the splits: the short splits that precede a
\* long one are the _good_splits merged when the long one is met, or when
\* the loop ends.
RECURSIVE _split_text(_, _)
RECURSIVE SplitLoop(_, _)
SplitLoop(splits, new_separators) ==
    LET k == FirstLong(splits)
        _good_splits == IF k = 0 THEN splits ELSE SubSeq(splits, 1, k - 1)
        merged == IF _good_splits # <<>> THEN _merge_splits(_good_splits) ELSE <<>>
    IN  IF k = 0 THEN merged
        ELSE LET s == splits[k]
                 other == IF new_separators = <<>>
                          THEN <<s>>
                          ELSE _split_text(s, new_separators)
             IN  merged \o other
                   \o SplitLoop(SubSeq(splits, k + 1, Len(splits)), new_separators)

_split_text(text, seps) ==
    LET i == FirstSeparator(text, seps)
        separator == IF i = 0 THEN seps[Len(seps)] ELSE seps[i]
        new_separators == IF i = 0 THEN <<>> ELSE SubSeq(seps, i + 1, Len(seps))
    IN  SplitLoop(_split_text_with_regex(text, separator), new_separators)

split_text(text) == _split_text(text, separators)

\* str.find(sub, start) for a non-empty sub: the lowest index >= start at
\* which sub occurs in text, -1 when there is none.  An occurrence of a
\* text of several runs ends its first run where a run of the text ends.
Find(text, sub, start) ==
    LET c == sub[1][1]
        r == sub[1][2]
        runs == { i \in DOMAIN text : text[i][1] = c /\ text[i][2] >= r }
        At(i) == IF Len(sub) = 1
                 THEN (IF start > RunStart(text, i) THEN start ELSE RunStart(text, i))
                 ELSE RunStart(text, i) + text[i][2] - r
        hits == { i \in runs :
                    /\ At(i) >= start
                    /\ At(i) + r <= RunStart(text, i) + text[i][2]
                    /\ Take(Drop(text, At(i)), TLen(sub)) = sub }
    IN  IF hits = {} THEN -1
        ELSE At(CHOOSE i \in hits : \A j \in hits : i <= j)

\* ------------------------------------------------------------------------
\* Documents: page_content is a text, metadata a function from keys to values
\* ------------------------------------------------------------------------
Document(text, meta) == [page_content |-> text, metadata |-> meta]

\* variant of Update: a key already present keeps its value
UpdateKeepingOld(meta, new) == meta @@ new

\* dict.update / {**a, **b}: the keys of new override those of meta
Update(meta, new) == new @@ meta

\* dict.setdefault(key, value)
SetDefault(meta, key, value) ==
    IF key \in DOMAIN meta THEN meta ELSE meta @@ (key :> value)

Max2(a, b) == IF a >= b THEN a ELSE b

\* TextSplitter.create_documents for one text: every chunk gets a copy of
\* the metadata of the document, plus start_index
RECURSIVE CreateLoop(_, _, _, _, _)
CreateLoop(text, meta, pieces, index, previous_chunk_len) ==
    IF pieces = <<>> THEN <<>>
    ELSE LET chunk == Head(pieces)
             offset == index + previous_chunk_len - CHUNK_OVERLAP
             found == Find(text, chunk, Max2(0, offset))
         IN  <<Document(chunk, Update(meta, [start_index |-> found]))>>
               \o CreateLoop(text, meta, Tail(pieces), found, TLen(chunk))

\* TextSplitter.split_documents([d])
split_documents(d) ==
    CreateLoop(d.page_content, d.metadata, split_text(d.page_content), 0, 0)

\* ------------------------------------------------------------------------
\* Inputs of one ingest_pdf call
\* ------------------------------------------------------------------------
\* A path is the sequence of the components its spelling holds between
\* "/".  Path(p) drops the empty and the "." components; str(Path(p)) joins
\* what is left, so that the sequence left stands for the string.
PurePath(parts) == SelectSeq(parts, LAMBDA c : c \notin {"", "."})

\* the spellings of file_path a caller gives: data/raw/rapport.pdf and
\* ./data/raw//rapport.pdf
FilePaths == { <<"data", "raw", "rapport.pdf">>,
               <<".", "data", "raw", "", "rapport.pdf">> }
Args == [year |-> 2023, title |-> "Rapport", theme |-> "numerique"]

\* institution names, as texts
I_COUR == Str(<<"C","o","u","r"," ","d","e","s"," ","c","o","m","p","t","e","s">>)
I_UNKNOWN == Str(<<"U","n","k","n","o","w","n"," ","A","g","e","n","c","y">>)
Institutions == {I_COUR, I_UNKNOWN}
\* the names the rule lookup is applied to
InstitutionNames ==
    Institutions \cup
    { Str(<<"C","O","U","R"," ","D","E","S"," ","C","O","M","P","T","E","S">>),
      Str(<<" ","I","G","F"," ">>),
      Str(<<"i","g","f">>),
      Str(<<"I","G","F">>),
      Str(<<"\t","C","o","u","r"," ","D","e","s"," ","C","o","m","p","t","e","s"," ","\n">>),
      Str(<<"I","G","A","S">>),
      Str(<<" "," ","c","g","e">>),
      Str(<<"i","g","a">>),
      Str(<<"I"," ","G"," ","F">>),
      <<>> }
Strategies == {"sections", "recursive"}

L_CHAPITRE == Str(<<"C","H","A","P","I","T","R","E"," ","I"," ","I","N","T","R","O","D","U","C","T","I","O","N"," ","G","E","N","E","R","A","L","E">>)
L_CECI     == Str(<<"C","e","c","i"," ","e","s","t"," ","l","e"," ","t","e","x","t","e",".">>)
L_PARTIE   == Str(<<"I"," ","-"," ","P","R","E","M","I","E","R","E"," ","P","A","R","T","I","E">>)
L_CONTENU  == Str(<<"C","o","n","t","e","n","u"," ","d","e"," ","l","a"," ","p","a","r","t","i","e"," ","u","n",".">>)
L_SYNTHESE == Str(<<"S","Y","N","T","H","E_grave","S","E">>)
L_BLANK    == <<>>
\* bodies of exactly 150, 151, 4000 and 4001 characters without separator
L_150      == Rep("a", MIN_CHUNK_LENGTH)
L_151      == Rep("a", MIN_CHUNK_LENGTH + 1)
L_4000     == Rep("a", 2 * CHUNK_SIZE)
L_4001     == Rep("a", 2 * CHUNK_SIZE + 1)
L_1999     == Rep("b", CHUNK_SIZE - 1)
\* 4401 characters: two sentences of long words
L_WORDS    == << <<"a", 1500>>, <<SP, 1>>, <<"b", 700>>, <<".", 1>>, <<SP, 1>>,
                 <<"a", 1999>>, <<SP, 1>>, <<"b", 198>> >>
\* 4514 characters: fifteen words of 300 characters
RECURSIVE Words(_)
Words(n) ==
    IF n = 0 THEN <<>>
    ELSE Cat(Words(n - 1),
             Cat(Rep(SP, IF n = 1 THEN 0 ELSE 1),
                 Rep(IF n % 2 = 1 THEN "a" ELSE "b", 300)))
L_PARAS    == Words(15)

LinePool == { L_CHAPITRE, L_SYNTHESE, L_CECI, L_BLANK,
              L_150, L_151, L_4001, L_WORDS }

RECURSIVE SeqsUpTo(_, _)
SeqsUpTo(S, n) ==
    IF n = 0 THEN { <<>> }
    ELSE LET shorter == SeqsUpTo(S, n - 1)
         IN  shorter \cup { Append(q, e) : q \in shorter, e \in S }

\* the five-line document of the specification's first scenario
ScenarioLines == << L_CHAPITRE, L_CECI, L_BLANK, L_PARTIE, L_CONTENU >>

\* a section of exactly 4000 characters, then a protected section of more
ProtectedLines == << L_4000, L_SYNTHESE, L_4001 >>
\* a titled section of several windows
TitledLines == << L_CECI, L_PARTIE, L_WORDS >>
\* pieces of 150, 2000 and 151 characters
BoundaryLines == << L_150, L_1999, L_151 >>

\* lines with whitespace at their edges, and a line of one tab
IndentedLines == << Cat(Rep(SP, 1), L_CECI), Rep("\t", 1),
                    Cat(Rep(SP, 2), Cat(L_PARTIE, Rep(SP, 1))), L_CONTENU,
                    Cat(Rep("\t", 1), L_SYNTHESE), L_CECI >>
\* whitespace only
WhiteLines == << Rep(SP, 2), Rep("\t", 1), L_BLANK >>
\* a line of 4001 tabs between two lines of text
TabLines == << L_CECI, Rep("\t", 2 * CHUNK_SIZE + 1), L_CECI >>

Reports == { ScenarioLines, ProtectedLines, TitledLines, BoundaryLines,
             <<L_4000>>, <<L_PARAS>>, <<L_CHAPITRE, L_PARAS>>,
             IndentedLines, WhiteLines, TabLines }

\* the texts a PDF can load as: up to MaxLines lines of the pool, or the
\* lines of one of the reports, joined by line feeds
PdfTexts ==
    { Join(ls, Rep(NL, 1)) : ls \in SeqsUpTo(LinePool, MaxLines) \cup Reports }

\* ------------------------------------------------------------------------
\* State of one ingest_pdf call
\* ------------------------------------------------------------------------
VARIABLES
    pc,                     \* position in ingest_pdf
    file_exists,            \* file_path.exists()
    file_path,              \* argument of the call, as the caller spells it
    institution, strategy,  \* arguments of the call
    pdf_text,               \* the text the loader extracts from the file
    doc,                    \* the loaded Document
    lines, li,              \* _chunk_by_sections: the lines and the loop index
    current_text, current_section_title, section_index,
    sections,               \* _chunk_by_sections: the list being built
    flushed,                \* history: the non-empty sections flushed so far
    segmenter_out,          \* history: the list the segmenter returned
    chunks,                 \* ingest_pdf: the list of chunks
    unit_pc,                \* position in a direct call of the title helpers
    unit_line,              \* the text the helpers are called on
    unit_patterns,          \* what _get_patterns returned
    unit_title,             \* what _detect_section_title returned
    unit_protected,         \* what _is_protected_section returned
    script_pc,              \* position in the script ingest_folder.py
    run,                    \* number of runs of the script started so far
    catalogue_exists,       \* catalogue.exists()
    catalogue,              \* the rows of catalogue.csv
    row_index,              \* the row the loop of the script is at
    vs                      \* the chunks the vector store holds, on disk

vars == << pc, file_exists, file_path, institution, strategy, pdf_text, doc, lines, li,
           current_text, current_section_title, section_index, sections,
           flushed, segmenter_out, chunks,
           unit_pc, unit_line, unit_patterns, unit_title, unit_protected,
           script_pc, run, catalogue_exists, catalogue, row_index, vs >>

unit == << unit_pc, unit_line, unit_patterns, unit_title, unit_protected >>
script == << script_pc, run, catalogue_exists, catalogue, row_index, vs >>
inputs == << file_exists, file_path, institution, strategy, pdf_text >>
locals == << lines, li, current_text, current_section_title, section_index,
             sections, flushed >>

NoDoc == Document(<<>>, << >>)

\* file_path = Path(file_path), then str(file_path)
FilePath == PurePath(file_path)

\* metadata the PDF loader attaches to the loaded document
LoaderMetadata == [source |-> FilePath, title |-> "titre du PDF", producer |-> "pdf"]

Init ==
    /\ pc = "start"
    /\ file_exists \in BOOLEAN
    /\ file_path \in FilePaths
    /\ institution \in Institutions
    /\ strategy \in Strategies
    /\ pdf_text \in PdfTexts
    /\ doc = NoDoc
    /\ lines = <<>>
    /\ li = 1
    /\ current_text = <<>>
    /\ current_section_title = None
    /\ section_index = 0
    /\ sections = <<>>
    /\ flushed = <<>>
    /\ segmenter_out = <<>>
    /\ chunks = <<>>
    /\ script_pc = "none"
    /\ run = 0
    /\ catalogue_exists = FALSE
    /\ catalogue = <<>>
    /\ row_index = 1
    /\ vs = <<>>
    /\ unit_pc = "none"
    /\ unit_line = <<>>
    /\ unit_patterns = <<>>
    /\ unit_title = None
    /\ unit_protected = FALSE

\* title or ""
TitleOrEmpty(title) == IF title.some THEN title.v ELSE <<>>

\* variant of SubChunks: the text of the section is split under the metadata
\* of the document alone, and nothing is set on the sub-chunks
SubChunksOfText(chunk, title, idx) ==
    split_documents(Document(chunk.page_content, doc.metadata))

\* the sub-chunks of an oversized section, after the two setdefault calls
SubChunks(chunk, title, idx) ==
    Only({ [i \in DOMAIN sub_chunks |->
                Document(sub_chunks[i].page_content,
                         SetDefault(SetDefault(sub_chunks[i].metadata,
                                               "section", TitleOrEmpty(title)),
                                    "section_index", idx))]
           : sub_chunks \in { split_documents(chunk) } })

\* variant of Oversized: the limit itself counts as oversized
OversizedFromLimit(text) == TLen(text) >= CHUNK_SIZE * 2

\* the test that sends a flushed section to recursive_splitter
Oversized(text) == TLen(text) > CHUNK_SIZE * 2

\* variant of Extend: the new chunks are put at the head of the list
ExtendAtHead(secs, out) == out \o secs

\* sections.extend(sub_chunks) / sections.append(chunk)
Extend(secs, out) == secs \o out

\* variant of Discarded: no buffer is discarded
DiscardedNever(text) == FALSE

\* _flush_section: if not text: return
Discarded(text) == text = <<>>

\* _flush_section(text, title, idx): the new value of sections, and of the
\* history of flushed sections
_flush_section(secs, hist, raw, title, idx) ==
    Only({ IF Discarded(text)
           THEN [sections |-> secs, flushed |-> hist]
           ELSE Only({
                  Only({ [sections |-> Extend(secs, out),
                          flushed |-> Append(hist,
                              [text |-> text, title |-> title, idx |-> idx,
                               split |-> Oversized(text), first |-> Len(secs) + 1,
                               count |-> Len(out)])]
                         : out \in { IF Oversized(text)
                                     THEN SubChunks(chunk, title, idx)
                                     ELSE <<chunk>> } })
                  : chunk \in { Document(text,
                                    Update(doc.metadata,
                                           [section |-> TitleOrEmpty(title),
                                            section_index |-> idx])) } })
           : text \in { Strip(raw) } })

\* ingest_pdf: the path does not exist
RaiseFileNotFound ==
    /\ pc = "start"
    /\ ~file_exists
    /\ pc' = "raised"
    /\ UNCHANGED << unit, script, inputs, doc, locals, segmenter_out, chunks >>

\* variant of LoadPdf: the file is loaded whether it exists or not
LoadPdfUnchecked ==
    /\ pc = "start"
    /\ doc' = Document(pdf_text, LoaderMetadata)
    /\ pc' = "loaded"
    /\ UNCHANGED << unit, script, inputs, locals, segmenter_out, chunks >>

\* ingest_pdf: _load_pdf_as_single_doc(file_path)
LoadPdf ==
    /\ pc = "start"
    /\ file_exists
    /\ doc' = Document(pdf_text, LoaderMetadata)
    /\ pc' = "loaded"
    /\ UNCHANGED << unit, script, inputs, locals, segmenter_out, chunks >>

\* _chunk_by_sections, up to the loop over the lines
ChunkBySectionsBegin ==
    /\ pc = "loaded"
    /\ strategy = "sections"
    /\ lines' = SplitOn(doc.page_content, Rep(NL, 1))
    /\ li' = 1
    /\ current_text' = <<>>
    /\ current_section_title' = None
    /\ section_index' = 0
    /\ sections' = <<>>
    /\ flushed' = <<>>
    /\ pc' = "lines"
    /\ UNCHANGED << unit, script, inputs, doc, segmenter_out, chunks >>

\* variant of AppendLine: the line is added without the line feed
AppendLineBare(buffer, line) == Cat(buffer, line)

\* current_text += "\n" + line
AppendLine(buffer, line) == Cat(Cat(buffer, Rep(NL, 1)), line)

\* variant of ChunkBySectionsLine: a heading moves the index on and leaves
\* the title as it was
ChunkBySectionsLineUntitled ==
    /\ pc = "lines"
    /\ li <= Len(lines)
    /\ \E line \in { lines[li] } :
       \E line_stripped \in { Strip(CollapseWs(line)) } :
       \E detected \in { _detect_section_title(line_stripped,
                                                _get_patterns(institution)) } :
           IF detected.some /\ detected.v # <<>> /\ current_text # <<>>
           THEN \E r \in { _flush_section(sections, flushed, current_text,
                                            current_section_title, section_index) } :
                    /\ sections' = r.sections
                    /\ flushed' = r.flushed
                    /\ section_index' = section_index + 1
                    /\ current_text' = line
                    /\ UNCHANGED current_section_title
           ELSE /\ current_text' = AppendLine(current_text, line)
                /\ UNCHANGED << sections, flushed, section_index, current_section_title >>
    /\ li' = li + 1
    /\ UNCHANGED << pc, unit, script, inputs, doc, lines, segmenter_out, chunks >>

\* _chunk_by_sections, one iteration of the loop over the lines
ChunkBySectionsLine ==
    /\ pc = "lines"
    /\ li <= Len(lines)
    /\ \E line \in { lines[li] } :
       \E line_stripped \in { Strip(CollapseWs(line)) } :
       \E detected \in { _detect_section_title(line_stripped,
                                                _get_patterns(institution)) } :
           IF detected.some /\ detected.v # <<>> /\ current_text # <<>>
           THEN \E r \in { _flush_section(sections, flushed, current_text,
                                            current_section_title, section_index) } :
                    /\ sections' = r.sections
                    /\ flushed' = r.flushed
                    /\ section_index' = section_index + 1
                    /\ current_text' = line
                    /\ current_section_title' = detected
           ELSE /\ current_text' = AppendLine(current_text, line)
                /\ UNCHANGED << sections, flushed, section_index, current_section_title >>
    /\ li' = li + 1
    /\ UNCHANGED << pc, unit, script, inputs, doc, lines, segmenter_out, chunks >>

\* _chunk_by_sections, after the loop: the last flush and the return
ChunkBySectionsReturn ==
    /\ pc = "lines"
    /\ li > Len(lines)
    /\ \E r \in { _flush_section(sections, flushed, current_text,
                                   current_section_title, section_index) } :
           /\ sections' = r.sections
           /\ flushed' = r.flushed
           /\ segmenter_out' = r.sections
           /\ chunks' = r.sections
    /\ pc' = "segmented"
    /\ UNCHANGED << unit, script, inputs, doc, lines, li, current_text, current_section_title,
                    section_index >>

\* _chunk_recursive(doc)
ChunkRecursive ==
    /\ pc = "loaded"
    /\ strategy # "sections"
    /\ chunks' = split_documents(doc)
    /\ segmenter_out' = chunks'
    /\ pc' = "segmented"
    /\ UNCHANGED << unit, script, inputs, doc, locals >>

\* variant of _add_metadata: section and section_index are part of the
\* update, so that the values of the segmenter are overwritten
_add_metadata_overwriting(cs) ==
    [i \in DOMAIN cs |->
        Document(cs[i].page_content,
                 Update(cs[i].metadata,
                        [institution |-> institution, year |-> Args.year,
                         title |-> Args.title, theme |-> Args.theme,
                         source |-> FilePath, chunk_index |-> i - 1,
                         section |-> <<>>, section_index |-> -1]))]

\* _add_metadata(chunks, institution, year, title, theme, file_path)
_add_metadata(cs) ==
    [i \in DOMAIN cs |->
        Document(cs[i].page_content,
                 SetDefault(SetDefault(
                     Update(cs[i].metadata,
                            [institution |-> institution, year |-> Args.year,
                             title |-> Args.title, theme |-> Args.theme,
                             source |-> FilePath, chunk_index |-> i - 1]),
                     "section", <<>>), "section_index", -1))]

AddMetadata ==
    /\ pc = "segmented"
    /\ chunks' = _add_metadata(chunks)
    /\ pc' = "enriched"
    /\ UNCHANGED << unit, script, inputs, doc, locals, segmenter_out >>

\* variant of Kept: a chunk of exactly the minimum length is kept
KeptFromLimit(c) == TLen(Strip(c.page_content)) >= MIN_CHUNK_LENGTH

\* the test of the list comprehension that ends ingest_pdf
Kept(c) == TLen(Strip(c.page_content)) > MIN_CHUNK_LENGTH

\* variant of PostFilter: the kept chunks are returned last first
PostFilterReversed ==
    /\ pc = "enriched"
    /\ chunks' = [i \in 1 .. Len(SelectSeq(chunks, Kept)) |->
                     SelectSeq(chunks, Kept)[Len(SelectSeq(chunks, Kept)) + 1 - i]]
    /\ pc' = "done"
    /\ UNCHANGED << unit, script, inputs, doc, locals, segmenter_out >>

\* ingest_pdf: the minimum-length filter, and the return
PostFilter ==
    /\ pc = "enriched"
    /\ chunks' = SelectSeq(chunks, Kept)
    /\ pc' = "done"
    /\ UNCHANGED << unit, script, inputs, doc, locals, segmenter_out >>

Next ==
    \/ RaiseFileNotFound
    \/ LoadPdf
    \/ ChunkBySectionsBegin
    \/ ChunkBySectionsLine
    \/ ChunkBySectionsReturn
    \/ ChunkRecursive
    \/ AddMetadata
    \/ PostFilter

Spec == Init /\ [][Next]_vars

\* ------------------------------------------------------------------------
\* scripts/ingest_folder.py, run several times over one folder and one
\* catalogue.  The vector store persists from a run to the next.
\* ------------------------------------------------------------------------
\* folder = Path(args.folder)
folder == <<"data", "raw">>

\* the PDF files of the folder, and the text each loads as
FolderFiles ==
    [ name \in {"a.pdf", "b.pdf", "c.pdf"} |->
        CASE name = "a.pdf" -> Join(<<L_151, L_SYNTHESE, L_151>>, Rep(NL, 1))
          [] name = "b.pdf" -> L_CECI
          [] name = "c.pdf" -> L_151 ]

\* the rows a catalogue can hold: the column fichier as the components of
\* its spelling (a.pdf, ./a.pdf, b.pdf, c.pdf, missing.pdf)
Rows ==
    [ fichier : { <<"a.pdf">>, <<".", "a.pdf">>, <<"b.pdf">>, <<"c.pdf">>,
                  <<"missing.pdf">> },
      institution : {I_COUR} ]

Catalogues == SeqsUpTo(Rows, MaxRows)

\* pdf = folder / row["fichier"]
pdf == PurePath(folder \o catalogue[row_index].fichier)

\* pdf.exists()
PdfExists == pdf[Len(pdf)] \in DOMAIN FolderFiles

\* variant of is_already_ingested: the store is asked for the file name
\* instead of the path
is_already_ingested_by_name(vector_store, source) ==
    \E i \in DOMAIN vector_store :
        vector_store[i].metadata.source = <<source[Len(source)]>>

\* is_already_ingested(vector_store, source): the store holds a chunk whose
\* metadata source is this string
is_already_ingested(vector_store, source) ==
    \E i \in DOMAIN vector_store : vector_store[i].metadata.source = source

FolderInit ==
    /\ pc = "idle"
    /\ file_exists = FALSE
    /\ file_path = <<>>
    /\ institution = I_COUR
    /\ strategy = "sections"
    /\ pdf_text = <<>>
    /\ doc = NoDoc
    /\ lines = <<>>
    /\ li = 1
    /\ current_text = <<>>
    /\ current_section_title = None
    /\ section_index = 0
    /\ sections = <<>>
    /\ flushed = <<>>
    /\ segmenter_out = <<>>
    /\ chunks = <<>>
    /\ script_pc = "idle"
    /\ run = 0
    /\ catalogue_exists \in BOOLEAN
    /\ catalogue \in Catalogues
    /\ row_index = 1
    /\ vs = <<>>
    /\ unit_pc = "none"
    /\ unit_line = <<>>
    /\ unit_patterns = <<>>
    /\ unit_title = None
    /\ unit_protected = FALSE

call == << pc, inputs, doc, locals, segmenter_out, chunks >>

\* a run starts: without catalogue.csv the script exits, otherwise
\* vs = get_vector_store() and the loop over the rows begins
ScriptStart ==
    /\ script_pc = "idle"
    /\ run < MaxRuns
    /\ run' = run + 1
    /\ row_index' = 1
    /\ script_pc' = IF catalogue_exists THEN "loop" ELSE "idle"
    /\ UNCHANGED << unit, catalogue_exists, catalogue, vs, call >>

\* the PDF of the row is not in the folder: continue
RowNotFound ==
    /\ script_pc = "loop"
    /\ row_index <= Len(catalogue)
    /\ ~PdfExists
    /\ row_index' = row_index + 1
    /\ UNCHANGED << unit, script_pc, run, catalogue_exists, catalogue, vs, call >>

\* the store already holds chunks of the PDF of the row: continue
RowAlreadyIngested ==
    /\ script_pc = "loop"
    /\ row_index <= Len(catalogue)
    /\ PdfExists
    /\ is_already_ingested(vs, pdf)
    /\ row_index' = row_index + 1
    /\ UNCHANGED << unit, script_pc, run, catalogue_exists, catalogue, vs, call >>

\* ingest_pdf(pdf, row["institution"], ...) is called, with the default
\* strategy
RowIngest ==
    /\ script_pc = "loop"
    /\ row_index <= Len(catalogue)
    /\ PdfExists
    /\ ~is_already_ingested(vs, pdf)
    /\ script_pc' = "call"
    /\ pc' = "start"
    /\ file_exists' = TRUE
    /\ file_path' = pdf
    /\ institution' = catalogue[row_index].institution
    /\ strategy' = "sections"
    /\ pdf_text' = FolderFiles[pdf[Len(pdf)]]
    /\ doc' = NoDoc
    /\ lines' = <<>>
    /\ li' = 1
    /\ current_text' = <<>>
    /\ current_section_title' = None
    /\ section_index' = 0
    /\ sections' = <<>>
    /\ flushed' = <<>>
    /\ segmenter_out' = <<>>
    /\ chunks' = <<>>
    /\ UNCHANGED << unit, run, catalogue_exists, catalogue, row_index, vs >>

\* add_documents(vs, chunks), ingest_pdf having returned.  What the store
\* does with an empty list is not in the sources: it adds nothing, and the
\* script either goes on or stops on an error.
AddDocuments ==
    /\ script_pc = "call"
    /\ pc = "done"
    /\ vs' = vs \o chunks
    /\ pc' = "idle"
    /\ \/ /\ script_pc' = "loop"
          /\ row_index' = row_index + 1
       \/ /\ chunks = <<>>
          /\ script_pc' = "idle"
          /\ UNCHANGED row_index
    /\ UNCHANGED << unit, run, catalogue_exists, catalogue, inputs, doc, locals,
                    segmenter_out, chunks >>

\* the loop has read the last row: the run ends
ScriptEnd ==
    /\ script_pc = "loop"
    /\ row_index > Len(catalogue)
    /\ script_pc' = "idle"
    /\ UNCHANGED << unit, run, catalogue_exists, catalogue, row_index, vs, call >>

FolderNext ==
    \/ ScriptStart
    \/ RowNotFound
    \/ RowAlreadyIngested
    \/ RowIngest
    \/ LoadPdf
    \/ ChunkBySectionsBegin
    \/ ChunkBySectionsLine
    \/ ChunkBySectionsReturn
    \/ AddMetadata
    \/ PostFilter
    \/ AddDocuments
    \/ ScriptEnd

FolderSpec == FolderInit /\ [][FolderNext]_vars

\* ------------------------------------------------------------------------
\* The title helpers called directly: _get_patterns(institution), then
\* _detect_section_title(line, patterns) and _is_protected_section(line)
\* ------------------------------------------------------------------------
\* the texts the helpers are called on
UnitLines ==
    { L_CHAPITRE, L_PARTIE, L_CECI,
      Cat(L_CHAPITRE, Rep("A", 2 * TITLE_MAX)),
      Rep("A", 3), Rep("A", 80), Rep("A", 81),
      <<>>,
      Str(<<"1","."," ","O","V","E","R","V","I","E","W">>),
      Str(<<"1","."," "," ","L","E","S"," ","J","E","T","O","N","S"," ","C","O","N","S","T","I","T","U","E","N","T">>),
      Str(<<"1",".","1","."," ","L","e","s"," ","j","e","t","o","n","s"," ","a"," ","v","o","c","a","t","i","o","n">>),
      Str(<<"A"," ","-"," ","L","e","s"," ","o","b","j","e","c","t","i","f","s"," ","r","e","t","e","n","u","s">>),
      Str(<<"S","Y","N","T","H","E_grave","S","E">>),
      Str(<<"s","y","n","t","h","e_grave","s","e">>),
      Str(<<"S","y","n","t","h","e","s","e">>),
      Str(<<"S","Y","N","T","H","E","S","E">>),
      Str(<<" "," ","S","Y","N","T","H","E_grave","S","E"," ","\t">>),
      Str(<<"R","E_acute","C","A","P","I","T","U","L","A","T","I","F"," ","D","E","S"," ","R","E","C","O","M","M","A","N","D","A","T","I","O","N","S">>),
      Str(<<"r","e","c","a","p","i","t","u","l","a","t","i","f"," ","d","e","s"," ","r","e","c","o","m","m","a","n","d","a","t","i","o","n","s">>),
      Str(<<"R","e_acute","c","a","p","i","t","u","l","a","t","i","f">>),
      Str(<<"C","o","n","c","l","u","s","i","o","n"," ","g","e_acute","n","e_acute","r","a","l","e">>),
      Str(<<"C","O","N","C","L","U","S","I","O","N">>),
      Str(<<"I","N","T","R","O","D","U","C","T","I","O","N">>),
      Str(<<"R","e","c","o","m","m","a","n","d","a","t","i","o","n","s">>),
      Str(<<"a","b","c">>),
      Str(<<"C","e","c","i"," ","e","s","t"," ","l","e"," ","t","e","x","t","e",".","\n","S","Y","N","T","H","E_grave","S","E">>) }

RulesInit ==
    /\ pc = "idle"
    /\ file_exists = FALSE
    /\ file_path = <<>>
    /\ institution \in InstitutionNames
    /\ strategy = "sections"
    /\ pdf_text = <<>>
    /\ doc = NoDoc
    /\ lines = <<>>
    /\ li = 1
    /\ current_text = <<>>
    /\ current_section_title = None
    /\ section_index = 0
    /\ sections = <<>>
    /\ flushed = <<>>
    /\ segmenter_out = <<>>
    /\ chunks = <<>>
    /\ script_pc = "none"
    /\ run = 0
    /\ catalogue_exists = FALSE
    /\ catalogue = <<>>
    /\ row_index = 1
    /\ vs = <<>>
    /\ unit_pc = "args"
    /\ unit_line \in UnitLines
    /\ unit_patterns = <<>>
    /\ unit_title = None
    /\ unit_protected = FALSE

others == << pc, inputs, doc, locals, segmenter_out, chunks, script >>

\* compiled_patterns = _get_patterns(institution)
GetPatterns ==
    /\ unit_pc = "args"
    /\ unit_patterns' = _get_patterns(institution)
    /\ unit_pc' = "resolved"
    /\ UNCHANGED << unit_line, unit_title, unit_protected, others >>

\* _detect_section_title(line, compiled_patterns)
DetectSectionTitle ==
    /\ unit_pc = "resolved"
    /\ unit_title' = _detect_section_title(unit_line, unit_patterns)
    /\ unit_pc' = "detected"
    /\ UNCHANGED << unit_line, unit_patterns, unit_protected, others >>

\* _is_protected_section(line)
IsProtectedSection ==
    /\ unit_pc = "detected"
    /\ unit_protected' = _is_protected_section(unit_line)
    /\ unit_pc' = "classified"
    /\ UNCHANGED << unit_line, unit_patterns, unit_title, others >>

RulesNext ==
    \/ GetPatterns
    \/ DetectSectionTitle
    \/ IsProtectedSection

RulesSpec == RulesInit /\ [][RulesNext]_vars

\* ------------------------------------------------------------------------
\* Properties
\* ------------------------------------------------------------------------
Has(meta, key, value) == key \in DOMAIN meta /\ meta[key] = value

Contents(cs) == [i \in DOMAIN cs |-> cs[i].page_content]

\* the chunks a flushed section has put in the list of the segmenter
Emitted(f) == SubSeq(sections, f.first, f.first + f.count - 1)

\* a chunk the fixed-window splitter has made carries the start_index that
\* add_start_index=True sets; the loader sets none
FromSplitter(c) == "start_index" \in DOMAIN c.metadata

ScenarioText == Join(ScenarioLines, Rep(NL, 1))

\* C1: in the section strategy a section whose title is protected is never
\* passed through the fixed-window splitter, whatever its length: it is
\* emitted as one single chunk holding its whole text.
C1_ProtectedNeverSplit ==
    \A j \in DOMAIN flushed :
        _is_protected_section(TitleOrEmpty(flushed[j].title)) =>
            /\ flushed[j].count = 1
            /\ Emitted(flushed[j])[1].page_content = flushed[j].text
            /\ ~FromSplitter(Emitted(flushed[j])[1])

C3_ScenarioSections ==
    ( /\ pc = "segmented"
      /\ strategy = "sections"
      /\ institution = I_COUR
      /\ pdf_text = ScenarioText )
    => /\ Len(segmenter_out) = 2
       /\ Has(segmenter_out[1].metadata, "section_index", 0)
       /\ Has(segmenter_out[1].metadata, "section", L_CHAPITRE)
       /\ Find(segmenter_out[1].page_content, L_CECI, 0) # -1
       /\ Has(segmenter_out[2].metadata, "section_index", 1)
       /\ Has(segmenter_out[2].metadata, "section", L_PARTIE)
       /\ Find(segmenter_out[2].page_content, L_CONTENU, 0) # -1

\* C4: in the list ingest_pdf returns, the chunk_index of every chunk is
\* its 0-based position in that list: 0, 1, ..., n-1 without gap.
C4_ChunkIndexIsPosition ==
    pc = "done" =>
        \A i \in DOMAIN chunks : Has(chunks[i].metadata, "chunk_index", i - 1)

\* C5: under either strategy a window made by the fixed-window splitter is
\* never longer than chunk_size characters, including for a text that holds
\* none of the separators.
C5_WindowAtMostChunkSize ==
    /\ (pc = "segmented" /\ strategy = "recursive") =>
          \A i \in DOMAIN chunks : TLen(chunks[i].page_content) <= CHUNK_SIZE
    /\ \A j \in DOMAIN flushed :
          TLen(flushed[j].text) > 2 * CHUNK_SIZE =>
              \A k \in 1 .. flushed[j].count :
                  TLen(Emitted(flushed[j])[k].page_content) <= CHUNK_SIZE

StrippedLen(t) == TLen(Strip(t))

\* C6: no chunk ingest_pdf returns, under either strategy, has a stripped
\* text of 150 characters or less, and the returned list is the list of the
\* segmenter without the chunks of 150 stripped characters or less: a chunk
\* of 150 is dropped, one of 151 is kept.
C6_MinimumLength ==
    pc = "done" =>
        /\ \A i \in DOMAIN chunks :
              StrippedLen(chunks[i].page_content) > MIN_CHUNK_LENGTH
        /\ Contents(chunks) =
              SelectSeq(Contents(segmenter_out),
                        LAMBDA t : StrippedLen(t) >= MIN_CHUNK_LENGTH + 1)

\* C6 witness: ingest_pdf has returned; the segmenter had made a chunk of
\* exactly 150 stripped characters and one of exactly 151, and the returned
\* list holds the one of 151
C6_Witness ==
    /\ pc = "done"
    /\ \E i \in DOMAIN segmenter_out :
          StrippedLen(segmenter_out[i].page_content) = MIN_CHUNK_LENGTH
    /\ \E i \in DOMAIN segmenter_out :
          StrippedLen(segmenter_out[i].page_content) = MIN_CHUNK_LENGTH + 1
    /\ \E i \in DOMAIN chunks :
          StrippedLen(chunks[i].page_content) = MIN_CHUNK_LENGTH + 1
    /\ Len(chunks) < Len(segmenter_out)

\* C7: in the section strategy the first chunk emitted for a document that
\* yields at least one chunk has section_index 0.
C7_FirstSectionIndexZero ==
    (pc = "segmented" /\ strategy = "sections" /\ segmenter_out # <<>>) =>
        Has(segmenter_out[1].metadata, "section_index", 0)

NonDecreasing(cs) ==
    \A i, j \in DOMAIN cs :
        i < j => cs[i].metadata.section_index <= cs[j].metadata.section_index

\* C8: in the output of the section strategy, before and after the filter,
\* section_index never decreases from a chunk to a later one, the sub-chunks
\* of split sections included.
C8_SectionIndexNonDecreasing ==
    strategy = "sections" =>
        /\ NonDecreasing(sections)
        /\ NonDecreasing(segmenter_out)
        /\ NonDecreasing(chunks)

\* C8 witness: ingest_pdf has returned under the section strategy; the
\* segmenter had made two sub-chunks of one split section, and the returned
\* list holds chunks of two different sections
C8_Witness ==
    /\ pc = "done"
    /\ strategy = "sections"
    /\ \E j \in DOMAIN flushed : flushed[j].count > 1
    /\ \E i, j \in DOMAIN chunks :
          /\ i < j
          /\ chunks[i].metadata.section_index < chunks[j].metadata.section_index

\* C9: every sub-chunk the fixed-window splitter makes of an oversized
\* section carries the section title and the section_index of that section,
\* and the sub-chunks stand together, in order, where the section would
\* stand: right after the chunks of the section flushed before.
C9_SubChunksInherit ==
    \A j \in DOMAIN flushed :
        TLen(flushed[j].text) > 2 * CHUNK_SIZE =>
            /\ \A k \in 1 .. flushed[j].count :
                  /\ Has(Emitted(flushed[j])[k].metadata, "section",
                         TitleOrEmpty(flushed[j].title))
                  /\ Has(Emitted(flushed[j])[k].metadata, "section_index",
                         flushed[j].idx)
            /\ Contents(Emitted(flushed[j])) = split_text(flushed[j].text)
            /\ flushed[j].first =
                  IF j = 1 THEN 1
                  ELSE flushed[j - 1].first + flushed[j - 1].count
            /\ flushed[j].first + flushed[j].count - 1 <= Len(sections)

\* C9 witness: the segmenter has returned; a titled section that is not the
\* first one was cut in three sub-chunks or more
C9_Witness ==
    /\ pc = "segmented"
    /\ \E j \in DOMAIN flushed :
          /\ j > 1
          /\ flushed[j].title.some
          /\ flushed[j].title.v # <<>>
          /\ TLen(flushed[j].text) > 2 * CHUNK_SIZE
          /\ flushed[j].count >= 3

\* C10: the enricher overwrites no section and no section_index: under the
\* section strategy every chunk keeps the values of the segmenter, so its
\* section_index is at least 0; under the recursive strategy every chunk
\* ends with the section "" and the section_index -1.
C10_EnricherKeepsSection ==
    pc \in {"enriched", "done"} =>
        IF strategy = "sections"
        THEN /\ pc = "enriched" =>
                  /\ Len(chunks) = Len(segmenter_out)
                  /\ \A i \in DOMAIN chunks :
                        /\ Has(chunks[i].metadata, "section",
                               segmenter_out[i].metadata.section)
                        /\ Has(chunks[i].metadata, "section_index",
                               segmenter_out[i].metadata.section_index)
             /\ \A i \in DOMAIN chunks :
                   /\ "section" \in DOMAIN chunks[i].metadata
                   /\ "section_index" \in DOMAIN chunks[i].metadata
                   /\ chunks[i].metadata.section_index >= 0
        ELSE \A i \in DOMAIN chunks :
                /\ Has(chunks[i].metadata, "section", <<>>)
                /\ Has(chunks[i].metadata, "section_index", -1)

\* C10 witness: the enricher has run on a list of the section strategy that
\* holds a chunk with a title and a section_index of 1 or more
C10_Witness ==
    /\ pc = "enriched"
    /\ strategy = "sections"
    /\ \E i \in DOMAIN chunks :
          /\ chunks[i].metadata.section # <<>>
          /\ chunks[i].metadata.section_index >= 1
          /\ Has(chunks[i].metadata, "chunk_index", i - 1)

\* C11: every chunk ingest_pdf returns carries as source the string form of
\* the file path, data/raw/rapport.pdf however the caller spells it, and
\* the institution, year, title and theme of the call: the same on every
\* chunk, whatever the loaded document carried under these keys.
C11_Provenance ==
    pc \in {"enriched", "done"} =>
        \A i \in DOMAIN chunks :
            /\ Has(chunks[i].metadata, "source", <<"data", "raw", "rapport.pdf">>)
            /\ Has(chunks[i].metadata, "institution", institution)
            /\ Has(chunks[i].metadata, "year", Args.year)
            /\ Has(chunks[i].metadata, "title", Args.title)
            /\ Has(chunks[i].metadata, "theme", Args.theme)

\* C11 witness: ingest_pdf has returned two chunks or more for a path given
\* as ./data/raw//rapport.pdf, of a document whose own title is another one
C11_Witness ==
    /\ pc = "done"
    /\ Len(chunks) >= 2
    /\ file_path # PurePath(file_path)
    /\ doc.metadata.title # Args.title

\* C12: whatever the runs of ingest_folder.py made one after another over
\* one folder and one catalogue, the store never holds a chunk of a PDF
\* twice, and ingest_pdf is never at work on a PDF whose source the store
\* already holds: such a PDF is skipped, also when several rows name it.
C12_IngestedAtMostOnce ==
    /\ \A i, j \in DOMAIN vs :
          ( /\ i < j
            /\ vs[i].metadata.source = vs[j].metadata.source )
          => vs[i].metadata.chunk_index # vs[j].metadata.chunk_index
    /\ script_pc = "call" => ~is_already_ingested(vs, FilePath)

\* C12 witness: in a second run, the loop has passed two rows that name one
\* PDF under two spellings, and the store holds the chunks of that PDF
C12_Witness ==
    /\ run = 2
    /\ script_pc = "loop"
    /\ row_index = 3
    /\ catalogue[1].fichier # catalogue[2].fichier
    /\ PurePath(catalogue[1].fichier) = PurePath(catalogue[2].fichier)
    /\ Len(vs) >= 2

\* the texts ts stand in t one after the other, in order, with nothing but
\* whitespace before, between and after them, and a line feed between two
RECURSIVE Tiles(_, _, _)
Tiles(t, ts, first) ==
    IF ts = <<>> THEN Strip(t) = <<>>
    ELSE /\ first \/ Occurs(Rep(NL, 1), Take(t, TLen(t) - TLen(LStrip(t))))
         /\ StartsWith(LStrip(t), Head(ts))
         /\ Tiles(Drop(LStrip(t), TLen(Head(ts))), Tail(ts), FALSE)

FirstLine(t) == Head(SplitOn(t, Rep(NL, 1)))

\* C13: when the section strategy returns, the flushed sections hold the
\* document in order, each non-blank line in exactly one of them: their
\* texts stand in the document one after the other with only whitespace
\* around them.  A section that follows another opens with a heading, and
\* the first line of a titled section is the heading that gave the title.
\* When no section is oversized the chunk texts are these texts.
C13_Coverage ==
    (pc = "segmented" /\ strategy = "sections") =>
        /\ Tiles(doc.page_content,
                 [j \in DOMAIN flushed |-> flushed[j].text], TRUE)
        /\ \A j \in DOMAIN flushed :
              /\ j > 1 => flushed[j].title.some
              /\ flushed[j].title.some =>
                    _detect_section_title(
                        Strip(CollapseWs(FirstLine(flushed[j].text))),
                        _get_patterns(institution)) = flushed[j].title
        /\ (\A j \in DOMAIN flushed : TLen(flushed[j].text) <= 2 * CHUNK_SIZE)
              => Tiles(doc.page_content, Contents(segmenter_out), TRUE)

\* C13 witness: the segmenter has returned three sections or more, none
\* oversized, of a document with a blank line
C13_Witness ==
    /\ pc = "segmented"
    /\ strategy = "sections"
    /\ Len(flushed) >= 3
    /\ \A j \in DOMAIN flushed : TLen(flushed[j].text) <= 2 * CHUNK_SIZE
    /\ \E k \in DOMAIN lines : Strip(lines[k]) = <<>>

\* C14: a document without a non-whitespace line (empty, or blank and
\* whitespace-only lines) gives no chunk under the section strategy, and
\* ingest_pdf returns the empty list for it and does not raise.
C14_EmptyDocument ==
    (file_exists /\ Strip(pdf_text) = <<>>) =>
        /\ pc # "raised"
        /\ (strategy = "sections" /\ pc \in {"segmented", "enriched", "done"})
              => segmenter_out = <<>>
        /\ pc = "done" => chunks = <<>>

\* C14 witness: ingest_pdf has returned for a document of several lines of
\* spaces and tabs, under the section strategy
C14_Witness ==
    /\ pc = "done"
    /\ strategy = "sections"
    /\ pdf_text # <<>>
    /\ Strip(pdf_text) = <<>>
    /\ Len(lines) >= 3
    /\ chunks = <<>>

\* C15: the section strategy never emits a chunk whose text is empty or
\* made of whitespace only.
C15_NoBlankChunk ==
    (strategy = "sections" /\ pc \in {"segmented", "enriched"}) =>
        \A i \in DOMAIN segmenter_out :
            Strip(segmenter_out[i].page_content) # <<>>

\* the institution names expected to resolve to the Cour des comptes rules
\* and to the IGF rules
NamesOfCour == { I_COUR, Str(<<"C","O","U","R"," ","D","E","S"," ","C","O","M","P","T","E","S">>),
                 Str(<<"\t","C","o","u","r"," ","D","e","s"," ","C","o","m","p","t","e","s"," ","\n">>) }
NamesOfIGF == { Str(<<" ","I","G","F"," ">>), Str(<<"i","g","f">>), Str(<<"I","G","F">>) }

\* C16: _get_patterns is total and never returns an empty list: the name is
\* trimmed and lower-cased before the lookup, so ' IGF ' and 'igf' resolve
\* to the IGF rules, 'COUR DES COMPTES' to the Cour des comptes rules, and
\* a name that is no key (such as 'Unknown Agency') to the generic rules,
\* under which '1. OVERVIEW' is detected as a title.
C16_RuleResolution ==
    unit_pc \in {"resolved", "detected", "classified"} =>
        /\ unit_patterns # <<>>
        /\ institution \in NamesOfIGF => unit_patterns = _PATTERNS_IGF
        /\ institution \in NamesOfCour
              => unit_patterns = _PATTERNS_COUR_DES_COMPTES
        /\ institution \notin (NamesOfIGF \cup NamesOfCour)
              => unit_patterns = _PATTERNS_GENERIQUES
        /\ (unit_pc # "resolved" /\ institution = I_UNKNOWN
                /\ unit_line = Str(<<"1","."," ","O","V","E","R","V","I","E","W">>))
              => unit_title = Some(Str(<<"1","."," ","O","V","E","R","V","I","E","W">>))

\* C16 witness: the rules of ' IGF ' have been resolved
C16_Witness ==
    /\ unit_pc = "resolved"
    /\ institution = Str(<<" ","I","G","F"," ">>)
    /\ unit_patterns = _PATTERNS_IGF

\* the texts of UnitLines that hold a protected keyword, whatever the case
\* and the accents
ProtectedTitles ==
    { Str(<<"S","Y","N","T","H","E_grave","S","E">>),
      Str(<<"s","y","n","t","h","e_grave","s","e">>),
      Str(<<"S","y","n","t","h","e","s","e">>),
      Str(<<"S","Y","N","T","H","E","S","E">>),
      Str(<<" "," ","S","Y","N","T","H","E_grave","S","E"," ","\t">>),
      Str(<<"R","E_acute","C","A","P","I","T","U","L","A","T","I","F"," ","D","E","S"," ","R","E","C","O","M","M","A","N","D","A","T","I","O","N","S">>),
      Str(<<"r","e","c","a","p","i","t","u","l","a","t","i","f"," ","d","e","s"," ","r","e","c","o","m","m","a","n","d","a","t","i","o","n","s">>),
      Str(<<"R","e_acute","c","a","p","i","t","u","l","a","t","i","f">>),
      Str(<<"C","o","n","c","l","u","s","i","o","n"," ","g","e_acute","n","e_acute","r","a","l","e">>),
      Str(<<"C","O","N","C","L","U","S","I","O","N">>),
      Str(<<"R","e","c","o","m","m","a","n","d","a","t","i","o","n","s">>),
      Str(<<"C","e","c","i"," ","e","s","t"," ","l","e"," ","t","e","x","t","e",".","\n","S","Y","N","T","H","E_grave","S","E">>) }

\* changes of case and of accents of a text
UpperChar(c) ==
    IF c \in Range(LOWER) THEN UPPER[IndexIn(LOWER, c)]
    ELSE IF c \in Range(ACC_LOWER) THEN ACC_UPPER[IndexIn(ACC_LOWER, c)]
    ELSE c
BareChar(c) ==
    IF c \in Range(ACC_LOWER) THEN ACC_BASE[IndexIn(ACC_LOWER, c)]
    ELSE IF c \in Range(ACC_UPPER) THEN UpperChar(ACC_BASE[IndexIn(ACC_UPPER, c)])
    ELSE c
AccentChar(c) ==
    CASE c = "e" -> "e_acute" [] c = "E" -> "E_grave" [] c = "a" -> "a_circ"
      [] c = "o" -> "o_circ" [] c = "O" -> "O_circ" [] c = "c" -> "c_ced"
      [] c = "u" -> "u_uml" [] c = "I" -> "I_uml" [] OTHER -> c
UpperText(t) == Str([i \in 1 .. TLen(t) |-> UpperChar(Expand(t)[i])])
BareText(t) == Str([i \in 1 .. TLen(t) |-> BareChar(Expand(t)[i])])
AccentText(t) == Str([i \in 1 .. TLen(t) |-> AccentChar(Expand(t)[i])])

\* C17: _is_protected_section is false for an empty title, and otherwise
\* true exactly when the title holds a protected keyword once lower-cased
\* and without its accents; its result is the same for the title in upper
\* case, in lower case, without its accents and with accents added.
C17_ProtectedTitle ==
    unit_pc = "classified" =>
        /\ unit_line = <<>> => ~unit_protected
        /\ unit_protected <=> unit_line \in ProtectedTitles
        /\ \A t \in { UpperText(unit_line), Lower(unit_line),
                      BareText(unit_line), AccentText(unit_line),
                      UpperText(AccentText(unit_line)) } :
              _is_protected_section(t) = unit_protected

\* C17 witness: RECAPITULATIF DES RECOMMANDATIONS, with its acute accent,
\* has been found protected
C17_Witness ==
    /\ unit_pc = "classified"
    /\ unit_line = Str(<<"R","E_acute","C","A","P","I","T","U","L","A","T","I","F"," ","D","E","S"," ","R","E","C","O","M","M","A","N","D","A","T","I","O","N","S">>)
    /\ unit_protected

\* what pattern.match leaves of t after the match, -1 when there is none:
\* the quantifiers are greedy and give characters back one at a time
RECURSIVE GreedyLeft(_, _)
GreedyLeft(items, t) ==
    IF items = <<>> THEN TLen(t)
    ELSE LET it == Head(items)
             after == Tail(items)
         IN  CASE it.k = "end" ->
                    IF t = <<>> \/ t[1][1] = NL THEN GreedyLeft(after, t) ELSE -1
               [] it.k = "alt" ->
                    LET ws == { w \in it.words : StartsWith(t, w)
                                  /\ GreedyLeft(after, Drop(t, TLen(w))) # -1 }
                    IN  IF ws = {} THEN -1
                        ELSE GreedyLeft(after, Drop(t, TLen(Only(ws))))
               [] it.k = "star" ->
                    LET more == GreedyLeft(it.sub \o items, t)
                    IN  IF more # -1 THEN more ELSE GreedyLeft(after, t)
               [] OTHER ->
                    LET r == ClassRun(t, it)
                        ns == { n \in it.lo .. Min2(it.hi, r) :
                                  GreedyLeft(after, Drop(t, n)) # -1 }
                    IN  IF ns = {} THEN -1
                        ELSE GreedyLeft(after,
                                 Drop(t, CHOOSE n \in ns : \A m \in ns : m <= n))

\* a line as _chunk_by_sections hands it to the detector
Normalized(t) == ~Occurs(Rep(NL, 1), t) /\ Strip(CollapseWs(t)) = t

\* C18: for a normalized line _detect_section_title returns a title if and
\* only if a pattern of the resolved list matches the line from its start;
\* the title is then the match of the first such pattern cut to 120
\* characters, so it is never longer; a line no pattern matches, the empty
\* line included, gives None.
C18_DetectedTitle ==
    (unit_pc \in {"detected", "classified"} /\ Normalized(unit_line)) =>
        LET hits == { p \in DOMAIN unit_patterns :
                        GreedyLeft(unit_patterns[p], unit_line) # -1 }
        IN  /\ unit_title.some <=> hits # {}
            /\ unit_line = <<>> => ~unit_title.some
            /\ ~unit_title.some => unit_title = None
            /\ unit_title.some =>
                  LET p0 == CHOOSE p \in hits : \A q \in hits : p <= q
                      matched == Take(unit_line,
                                      TLen(unit_line)
                                        - GreedyLeft(unit_patterns[p0], unit_line))
                  IN  /\ unit_title.v = Take(matched, 120)
                      /\ TLen(unit_title.v) <= 120

\* C18 witness: a heading of more than 120 characters has been detected and
\* its title has 120 characters
C18_Witness ==
    /\ unit_pc = "detected"
    /\ Normalized(unit_line)
    /\ TLen(unit_line) > 120
    /\ unit_title.some
    /\ TLen(unit_title.v) = 120

\* C19: the enricher and the filter do not reorder: after the enricher the
\* chunks are those of the segmenter, one for one; the list ingest_pdf
\* returns is a subsequence of the segmenter's list, each chunk standing for
\* the one at its chunk_index, and chunk_index strictly increases along it.
C19_OrderKept ==
    /\ pc = "enriched" =>
          /\ Len(chunks) = Len(segmenter_out)
          /\ \A i \in DOMAIN chunks :
                chunks[i].page_content = segmenter_out[i].page_content
    /\ pc = "done" =>
          /\ \A k \in DOMAIN chunks :
                /\ chunks[k].metadata.chunk_index \in 0 .. Len(segmenter_out) - 1
                /\ chunks[k].page_content =
                       segmenter_out[chunks[k].metadata.chunk_index + 1].page_content
          /\ \A j, k \in DOMAIN chunks :
                j < k => chunks[j].metadata.chunk_index
                            < chunks[k].metadata.chunk_index

\* C19 witness: ingest_pdf has returned two chunks or more, and the filter
\* has dropped one that stood between two of them
C19_Witness ==
    /\ pc = "done"
    /\ Len(chunks) >= 2
    /\ chunks[1].metadata.chunk_index + 1 < chunks[2].metadata.chunk_index
    /\ chunks[1].page_content # chunks[2].page_content

\* C20: when the path does not exist ingest_pdf raises FileNotFoundError
\* before anything else runs: the loader has produced no document, no
\* segmenter, enricher or filter has run, and no chunk exists; and this
\* raise happens on a missing path only.
C20_MissingFileRaises ==
    /\ ~file_exists =>
          /\ pc \in {"start", "raised"}
          /\ doc = NoDoc
          /\ lines = <<>> /\ sections = <<>> /\ flushed = <<>>
          /\ segmenter_out = <<>>
          /\ chunks = <<>>
    /\ pc = "raised" => ~file_exists

\* C20 witness: ingest_pdf has raised for a path that does not exist, whose
\* file would have given text
C20_Witness ==
    /\ pc = "raised"
    /\ ~file_exists
    /\ pdf_text # <<>>

\* the chunks of a list carry the empty title exactly at section_index 0,
\* and one title for each section_index
TitledByIndex(cs) ==
    /\ \A i \in DOMAIN cs :
          /\ cs[i].metadata.section_index >= 0
          /\ cs[i].metadata.section = <<>> <=> cs[i].metadata.section_index = 0
          /\ cs[i].metadata.section_index >= 1 => TLen(cs[i].metadata.section) > 0
    /\ \A i, j \in DOMAIN cs :
          cs[i].metadata.section_index = cs[j].metadata.section_index
              => cs[i].metadata.section = cs[j].metadata.section

\* a step that changes the title or the index of the current section is an
\* iteration of the loop on a heading, the buffer not empty: the index moves
\* on by one and the title becomes the heading
TitleAndIndexStep ==
    (section_index' # section_index
        \/ current_section_title' # current_section_title) =>
        /\ pc = "lines"
        /\ li <= Len(lines)
        /\ current_text # <<>>
        /\ section_index' = section_index + 1
        /\ current_section_title'.some
        /\ current_section_title' =
              _detect_section_title(Strip(CollapseWs(lines[li])),
                                    _get_patterns(institution))

\* C21: in the section strategy the title and the index of the current
\* section change only together, at a heading detected on a non-empty
\* buffer; so there is no title exactly while the index is 0, and in the
\* list being built, in the list the segmenter returns and in the list
\* ingest_pdf returns a chunk has the title "" exactly when its
\* section_index is 0, a chunk of section_index 1 or more has a non-empty
\* title, and two chunks of one section_index have one title.
C21_TitleAndIndexTogether ==
    /\ [](strategy = "sections" =>
            /\ current_section_title.some <=> section_index >= 1
            /\ current_section_title.some => current_section_title.v # <<>>
            /\ TitledByIndex(sections)
            /\ TitledByIndex(segmenter_out)
            /\ TitledByIndex(chunks))
    /\ [][TitleAndIndexStep]_vars

\* C21 witness: the segmenter has returned a chunk of section_index 0 and
\* two chunks of one later section
C21_Witness ==
    /\ pc = "segmented"
    /\ strategy = "sections"
    /\ \E i \in DOMAIN segmenter_out : segmenter_out[i].metadata.section_index = 0
    /\ \E i, j \in DOMAIN segmenter_out :
          /\ i < j
          /\ segmenter_out[i].metadata.section_index >= 1
          /\ segmenter_out[i].metadata.section_index
                = segmenter_out[j].metadata.section_index

====
